---- MODULE Spec2Model ----
(***************************************************************************)
(* receipt-extractor.py: Drive listing -> GCS archive -> Vision OCR ->     *)
(* field parsing -> Sheets row.                                            *)
(*                                                                         *)
(* Python str values are modelled as sequences of Unicode code points,    *)
(* so that lower(), "in", split() and indexing are computed as Python      *)
(* computes them.  A Python value that may be None is a record tagged by   *)
(* its type in field t, so that "not x" is computed per type as Python     *)
(* does: None, 0, {} and [] are falsy.                                     *)
(***************************************************************************)
EXTENDS Integers, Sequences, FiniteSets, TLC

VARIABLES
    \* ---- the world main() acts on
    listing,      \* what DRIVE.files().list returns: sequence of file records
    bucket,       \* object names held by the GCS bucket
    sheet,        \* rows of Sheet1, in append order
    \* ---- the running process
    pc,           \* "idle" | "loop" | "vision" | "append" | "returned"
    i,            \* position of the for loop of main() in the listing (1-based)
    fields,       \* what vision_detect_text_img returned for the current file
    result,       \* what main() returned: "True" | "None" | "raised" | "running" | "never"
    cli,          \* last line the __main__ block printed: "" | "DONE" | "ERROR" | "TRACEBACK"
    browser,      \* whether the last __main__ block opened the spreadsheet
    \* ---- history of the runs (observation only, never read by an action's guard)
    run,          \* number of runs started
    prevResult,   \* result of the run before the current one
    emptyCond,    \* empty-result condition met in this run: "none" | "listing" | "upload" | "extraction" | "append"
    startBucket,  \* bucket when this run started
    startRows,    \* Len(sheet) when this run started
    uploadCalls,  \* gcs_blob_upload calls of this run
    appendCalls,  \* sheet_append_row calls of this run
    skippedIdx,   \* listing positions this run skipped as duplicates
    triedIdx,     \* listing positions this run called gcs_blob_upload for
    uploadedIdx,  \* listing positions this run uploaded with confirmation
    visionIdx,    \* listing positions this run sent to the Vision API
    rowedIdx,     \* listing positions this run appended a row for
    uploadCount,  \* object name -> confirmed uploads over all runs
    \* ---- the text extractor run on its own
    rsp,          \* the Vision response handed to the field parser
    out,          \* what vision_detect_text_img returned for rsp
    ppc           \* "ready" | "done"

mainVars == <<listing, bucket, sheet, pc, i, fields, result, cli, browser, run,
              prevResult, emptyCond, startBucket, startRows, uploadCalls,
              appendCalls, skippedIdx, triedIdx, uploadedIdx, visionIdx, rowedIdx,
              uploadCount>>
parseVars == <<rsp, out, ppc>>
vars == <<mainVars, parseVars>>

(***************************************************************************)
(* Bounds                                                                  *)
(***************************************************************************)
MaxFiles == 3     \* longest Drive listing
MaxRuns  == 3     \* runs of the script in one behaviour
MaxBody  == 2     \* lines of a text blob after its header lines

(***************************************************************************)
(* Python str: a sequence of Unicode code points                           *)
(***************************************************************************)
\* the printable ASCII characters in code-point order: 32 (space) to 95,
\* and 97 to 126 (a string cannot hold 96, the grave accent)
AsciiLow ==
  <<
    " ","!","\"","#","$","%","&","'","(",")","*","+",",","-",".","/",
    "0","1","2","3","4","5","6","7","8","9",":",";","<","=",">","?",
    "@","A","B","C","D","E","F","G","H","I","J","K","L","M","N","O",
    "P","Q","R","S","T","U","V","W","X","Y","Z","[","\\","]","^","_"
  >>
AsciiHigh ==
  <<
    "a","b","c","d","e","f","g","h","i","j","k","l","m","n","o","p",
    "q","r","s","t","u","v","w","x","y","z","{","|","}","~"
  >>

\* ord(c) of one written ASCII character
ord(c) ==
    CASE c = "\n" -> 10
      [] c = "\t" -> 9
      [] c = "\r" -> 13
      [] \E k \in 1..Len(AsciiLow) : AsciiLow[k] = c ->
            31 + (CHOOSE k \in 1..Len(AsciiLow) : AsciiLow[k] = c)
      [] OTHER -> 96 + (CHOOSE k \in 1..Len(AsciiHigh) : AsciiHigh[k] = c)

\* the str written as the characters of lit
str(lit) == [k \in 1..Len(lit) |-> ord(lit[k])]

(***************************************************************************)
(* str.lower() (CPython 3.11, Unicode 14.0.0)                              *)
(***************************************************************************)
\* The simple lower-case mappings: <<first, last, step, delta>> says that
\* first, first+step, ..., last each lower-case to themselves plus delta.
LowerRuns ==
  <<
    <<65,90,1,32>>, <<192,214,1,32>>, <<216,222,1,32>>, <<256,302,2,1>>,
    <<306,310,2,1>>, <<313,327,2,1>>, <<330,374,2,1>>, <<376,376,1,-121>>,
    <<377,381,2,1>>, <<385,385,1,210>>, <<386,388,2,1>>, <<390,390,1,206>>,
    <<391,391,1,1>>, <<393,394,1,205>>, <<395,395,1,1>>, <<398,398,1,79>>,
    <<399,399,1,202>>, <<400,400,1,203>>, <<401,401,1,1>>, <<403,403,1,205>>,
    <<404,404,1,207>>, <<406,406,1,211>>, <<407,407,1,209>>, <<408,408,1,1>>,
    <<412,412,1,211>>, <<413,413,1,213>>, <<415,415,1,214>>, <<416,420,2,1>>,
    <<422,422,1,218>>, <<423,423,1,1>>, <<425,425,1,218>>, <<428,428,1,1>>,
    <<430,430,1,218>>, <<431,431,1,1>>, <<433,434,1,217>>, <<435,437,2,1>>,
    <<439,439,1,219>>, <<440,440,1,1>>, <<444,444,1,1>>, <<452,452,1,2>>,
    <<453,453,1,1>>, <<455,455,1,2>>, <<456,456,1,1>>, <<458,458,1,2>>,
    <<459,475,2,1>>, <<478,494,2,1>>, <<497,497,1,2>>, <<498,500,2,1>>,
    <<502,502,1,-97>>, <<503,503,1,-56>>, <<504,542,2,1>>, <<544,544,1,-130>>,
    <<546,562,2,1>>, <<570,570,1,10795>>, <<571,571,1,1>>, <<573,573,1,-163>>,
    <<574,574,1,10792>>, <<577,577,1,1>>, <<579,579,1,-195>>, <<580,580,1,69>>,
    <<581,581,1,71>>, <<582,590,2,1>>, <<880,882,2,1>>, <<886,886,1,1>>,
    <<895,895,1,116>>, <<902,902,1,38>>, <<904,906,1,37>>, <<908,908,1,64>>,
    <<910,911,1,63>>, <<913,929,1,32>>, <<931,939,1,32>>, <<975,975,1,8>>,
    <<984,1006,2,1>>, <<1012,1012,1,-60>>, <<1015,1015,1,1>>, <<1017,1017,1,-7>>,
    <<1018,1018,1,1>>, <<1021,1023,1,-130>>, <<1024,1039,1,80>>, <<1040,1071,1,32>>,
    <<1120,1152,2,1>>, <<1162,1214,2,1>>, <<1216,1216,1,15>>, <<1217,1229,2,1>>,
    <<1232,1326,2,1>>, <<1329,1366,1,48>>, <<4256,4293,1,7264>>, <<4295,4295,1,7264>>,
    <<4301,4301,1,7264>>, <<5024,5103,1,38864>>, <<5104,5109,1,8>>, <<7312,7354,1,-3008>>,
    <<7357,7359,1,-3008>>, <<7680,7828,2,1>>, <<7838,7838,1,-7615>>, <<7840,7934,2,1>>,
    <<7944,7951,1,-8>>, <<7960,7965,1,-8>>, <<7976,7983,1,-8>>, <<7992,7999,1,-8>>,
    <<8008,8013,1,-8>>, <<8025,8031,2,-8>>, <<8040,8047,1,-8>>, <<8072,8079,1,-8>>,
    <<8088,8095,1,-8>>, <<8104,8111,1,-8>>, <<8120,8121,1,-8>>, <<8122,8123,1,-74>>,
    <<8124,8124,1,-9>>, <<8136,8139,1,-86>>, <<8140,8140,1,-9>>, <<8152,8153,1,-8>>,
    <<8154,8155,1,-100>>, <<8168,8169,1,-8>>, <<8170,8171,1,-112>>, <<8172,8172,1,-7>>,
    <<8184,8185,1,-128>>, <<8186,8187,1,-126>>, <<8188,8188,1,-9>>, <<8486,8486,1,-7517>>,
    <<8490,8490,1,-8383>>, <<8491,8491,1,-8262>>, <<8498,8498,1,28>>, <<8544,8559,1,16>>,
    <<8579,8579,1,1>>, <<9398,9423,1,26>>, <<11264,11311,1,48>>, <<11360,11360,1,1>>,
    <<11362,11362,1,-10743>>, <<11363,11363,1,-3814>>, <<11364,11364,1,-10727>>, <<11367,11371,2,1>>,
    <<11373,11373,1,-10780>>, <<11374,11374,1,-10749>>, <<11375,11375,1,-10783>>, <<11376,11376,1,-10782>>,
    <<11378,11378,1,1>>, <<11381,11381,1,1>>, <<11390,11391,1,-10815>>, <<11392,11490,2,1>>,
    <<11499,11501,2,1>>, <<11506,11506,1,1>>, <<42560,42604,2,1>>, <<42624,42650,2,1>>,
    <<42786,42798,2,1>>, <<42802,42862,2,1>>, <<42873,42875,2,1>>, <<42877,42877,1,-35332>>,
    <<42878,42886,2,1>>, <<42891,42891,1,1>>, <<42893,42893,1,-42280>>, <<42896,42898,2,1>>,
    <<42902,42920,2,1>>, <<42922,42922,1,-42308>>, <<42923,42923,1,-42319>>, <<42924,42924,1,-42315>>,
    <<42925,42925,1,-42305>>, <<42926,42926,1,-42308>>, <<42928,42928,1,-42258>>, <<42929,42929,1,-42282>>,
    <<42930,42930,1,-42261>>, <<42931,42931,1,928>>, <<42932,42946,2,1>>, <<42948,42948,1,-48>>,
    <<42949,42949,1,-42307>>, <<42950,42950,1,-35384>>, <<42951,42953,2,1>>, <<42960,42960,1,1>>,
    <<42966,42968,2,1>>, <<42997,42997,1,1>>, <<65313,65338,1,32>>, <<66560,66599,1,40>>,
    <<66736,66771,1,40>>, <<66928,66938,1,39>>, <<66940,66954,1,39>>, <<66956,66962,1,39>>,
    <<66964,66965,1,39>>, <<68736,68786,1,64>>, <<71840,71871,1,32>>, <<93760,93791,1,32>>,
    <<125184,125217,1,34>>
  >>

\* The code points with the property Cased that are not Case_Ignorable,
\* and those that are Case_Ignorable, as <<first, last>> ranges: what
\* decides the lower case of capital sigma.
CasedRanges ==
  <<
    <<65,90>>, <<97,122>>, <<170,170>>, <<181,181>>, <<186,186>>, <<192,214>>,
    <<216,246>>, <<248,442>>, <<444,447>>, <<452,659>>, <<661,687>>, <<880,883>>,
    <<886,887>>, <<891,893>>, <<895,895>>, <<902,902>>, <<904,906>>, <<908,908>>,
    <<910,929>>, <<931,1013>>, <<1015,1153>>, <<1162,1327>>, <<1329,1366>>, <<1376,1416>>,
    <<4256,4293>>, <<4295,4295>>, <<4301,4301>>, <<4304,4346>>, <<4349,4351>>, <<5024,5109>>,
    <<5112,5117>>, <<7296,7304>>, <<7312,7354>>, <<7357,7359>>, <<7424,7467>>, <<7531,7543>>,
    <<7545,7578>>, <<7680,7957>>, <<7960,7965>>, <<7968,8005>>, <<8008,8013>>, <<8016,8023>>,
    <<8025,8025>>, <<8027,8027>>, <<8029,8029>>, <<8031,8061>>, <<8064,8116>>, <<8118,8124>>,
    <<8126,8126>>, <<8130,8132>>, <<8134,8140>>, <<8144,8147>>, <<8150,8155>>, <<8160,8172>>,
    <<8178,8180>>, <<8182,8188>>, <<8450,8450>>, <<8455,8455>>, <<8458,8467>>, <<8469,8469>>,
    <<8473,8477>>, <<8484,8484>>, <<8486,8486>>, <<8488,8488>>, <<8490,8493>>, <<8495,8500>>,
    <<8505,8505>>, <<8508,8511>>, <<8517,8521>>, <<8526,8526>>, <<8544,8575>>, <<8579,8580>>,
    <<9398,9449>>, <<11264,11387>>, <<11390,11492>>, <<11499,11502>>, <<11506,11507>>, <<11520,11557>>,
    <<11559,11559>>, <<11565,11565>>, <<42560,42605>>, <<42624,42651>>, <<42786,42863>>, <<42865,42887>>,
    <<42891,42894>>, <<42896,42954>>, <<42960,42961>>, <<42963,42963>>, <<42965,42969>>, <<42997,42998>>,
    <<43002,43002>>, <<43824,43866>>, <<43872,43880>>, <<43888,43967>>, <<64256,64262>>, <<64275,64279>>,
    <<65313,65338>>, <<65345,65370>>, <<66560,66639>>, <<66736,66771>>, <<66776,66811>>, <<66928,66938>>,
    <<66940,66954>>, <<66956,66962>>, <<66964,66965>>, <<66967,66977>>, <<66979,66993>>, <<66995,67001>>,
    <<67003,67004>>, <<68736,68786>>, <<68800,68850>>, <<71840,71903>>, <<93760,93823>>, <<119808,119892>>,
    <<119894,119964>>, <<119966,119967>>, <<119970,119970>>, <<119973,119974>>, <<119977,119980>>, <<119982,119993>>,
    <<119995,119995>>, <<119997,120003>>, <<120005,120069>>, <<120071,120074>>, <<120077,120084>>, <<120086,120092>>,
    <<120094,120121>>, <<120123,120126>>, <<120128,120132>>, <<120134,120134>>, <<120138,120144>>, <<120146,120485>>,
    <<120488,120512>>, <<120514,120538>>, <<120540,120570>>, <<120572,120596>>, <<120598,120628>>, <<120630,120654>>,
    <<120656,120686>>, <<120688,120712>>, <<120714,120744>>, <<120746,120770>>, <<120772,120779>>, <<122624,122633>>,
    <<122635,122654>>, <<125184,125251>>, <<127280,127305>>, <<127312,127337>>, <<127344,127369>>
  >>

CaseIgnorableRanges ==
  <<
    <<39,39>>, <<46,46>>, <<58,58>>, <<94,94>>, <<96,96>>, <<168,168>>,
    <<173,173>>, <<175,175>>, <<180,180>>, <<183,184>>, <<688,879>>, <<884,885>>,
    <<890,890>>, <<900,901>>, <<903,903>>, <<1155,1161>>, <<1369,1369>>, <<1375,1375>>,
    <<1425,1469>>, <<1471,1471>>, <<1473,1474>>, <<1476,1477>>, <<1479,1479>>, <<1524,1524>>,
    <<1536,1541>>, <<1552,1562>>, <<1564,1564>>, <<1600,1600>>, <<1611,1631>>, <<1648,1648>>,
    <<1750,1757>>, <<1759,1768>>, <<1770,1773>>, <<1807,1807>>, <<1809,1809>>, <<1840,1866>>,
    <<1958,1968>>, <<2027,2037>>, <<2042,2042>>, <<2045,2045>>, <<2070,2093>>, <<2137,2139>>,
    <<2184,2184>>, <<2192,2193>>, <<2200,2207>>, <<2249,2306>>, <<2362,2362>>, <<2364,2364>>,
    <<2369,2376>>, <<2381,2381>>, <<2385,2391>>, <<2402,2403>>, <<2417,2417>>, <<2433,2433>>,
    <<2492,2492>>, <<2497,2500>>, <<2509,2509>>, <<2530,2531>>, <<2558,2558>>, <<2561,2562>>,
    <<2620,2620>>, <<2625,2626>>, <<2631,2632>>, <<2635,2637>>, <<2641,2641>>, <<2672,2673>>,
    <<2677,2677>>, <<2689,2690>>, <<2748,2748>>, <<2753,2757>>, <<2759,2760>>, <<2765,2765>>,
    <<2786,2787>>, <<2810,2815>>, <<2817,2817>>, <<2876,2876>>, <<2879,2879>>, <<2881,2884>>,
    <<2893,2893>>, <<2901,2902>>, <<2914,2915>>, <<2946,2946>>, <<3008,3008>>, <<3021,3021>>,
    <<3072,3072>>, <<3076,3076>>, <<3132,3132>>, <<3134,3136>>, <<3142,3144>>, <<3146,3149>>,
    <<3157,3158>>, <<3170,3171>>, <<3201,3201>>, <<3260,3260>>, <<3263,3263>>, <<3270,3270>>,
    <<3276,3277>>, <<3298,3299>>, <<3328,3329>>, <<3387,3388>>, <<3393,3396>>, <<3405,3405>>,
    <<3426,3427>>, <<3457,3457>>, <<3530,3530>>, <<3538,3540>>, <<3542,3542>>, <<3633,3633>>,
    <<3636,3642>>, <<3654,3662>>, <<3761,3761>>, <<3764,3772>>, <<3782,3782>>, <<3784,3789>>,
    <<3864,3865>>, <<3893,3893>>, <<3895,3895>>, <<3897,3897>>, <<3953,3966>>, <<3968,3972>>,
    <<3974,3975>>, <<3981,3991>>, <<3993,4028>>, <<4038,4038>>, <<4141,4144>>, <<4146,4151>>,
    <<4153,4154>>, <<4157,4158>>, <<4184,4185>>, <<4190,4192>>, <<4209,4212>>, <<4226,4226>>,
    <<4229,4230>>, <<4237,4237>>, <<4253,4253>>, <<4348,4348>>, <<4957,4959>>, <<5906,5908>>,
    <<5938,5939>>, <<5970,5971>>, <<6002,6003>>, <<6068,6069>>, <<6071,6077>>, <<6086,6086>>,
    <<6089,6099>>, <<6103,6103>>, <<6109,6109>>, <<6155,6159>>, <<6211,6211>>, <<6277,6278>>,
    <<6313,6313>>, <<6432,6434>>, <<6439,6440>>, <<6450,6450>>, <<6457,6459>>, <<6679,6680>>,
    <<6683,6683>>, <<6742,6742>>, <<6744,6750>>, <<6752,6752>>, <<6754,6754>>, <<6757,6764>>,
    <<6771,6780>>, <<6783,6783>>, <<6823,6823>>, <<6832,6862>>, <<6912,6915>>, <<6964,6964>>,
    <<6966,6970>>, <<6972,6972>>, <<6978,6978>>, <<7019,7027>>, <<7040,7041>>, <<7074,7077>>,
    <<7080,7081>>, <<7083,7085>>, <<7142,7142>>, <<7144,7145>>, <<7149,7149>>, <<7151,7153>>,
    <<7212,7219>>, <<7222,7223>>, <<7288,7293>>, <<7376,7378>>, <<7380,7392>>, <<7394,7400>>,
    <<7405,7405>>, <<7412,7412>>, <<7416,7417>>, <<7468,7530>>, <<7544,7544>>, <<7579,7679>>,
    <<8125,8125>>, <<8127,8129>>, <<8141,8143>>, <<8157,8159>>, <<8173,8175>>, <<8189,8190>>,
    <<8203,8207>>, <<8216,8217>>, <<8228,8228>>, <<8231,8231>>, <<8234,8238>>, <<8288,8292>>,
    <<8294,8303>>, <<8305,8305>>, <<8319,8319>>, <<8336,8348>>, <<8400,8432>>, <<11388,11389>>,
    <<11503,11505>>, <<11631,11631>>, <<11647,11647>>, <<11744,11775>>, <<11823,11823>>, <<12293,12293>>,
    <<12330,12333>>, <<12337,12341>>, <<12347,12347>>, <<12441,12446>>, <<12540,12542>>, <<40981,40981>>,
    <<42232,42237>>, <<42508,42508>>, <<42607,42610>>, <<42612,42621>>, <<42623,42623>>, <<42652,42655>>,
    <<42736,42737>>, <<42752,42785>>, <<42864,42864>>, <<42888,42890>>, <<42994,42996>>, <<43000,43001>>,
    <<43010,43010>>, <<43014,43014>>, <<43019,43019>>, <<43045,43046>>, <<43052,43052>>, <<43204,43205>>,
    <<43232,43249>>, <<43263,43263>>, <<43302,43309>>, <<43335,43345>>, <<43392,43394>>, <<43443,43443>>,
    <<43446,43449>>, <<43452,43453>>, <<43471,43471>>, <<43493,43494>>, <<43561,43566>>, <<43569,43570>>,
    <<43573,43574>>, <<43587,43587>>, <<43596,43596>>, <<43632,43632>>, <<43644,43644>>, <<43696,43696>>,
    <<43698,43700>>, <<43703,43704>>, <<43710,43711>>, <<43713,43713>>, <<43741,43741>>, <<43756,43757>>,
    <<43763,43764>>, <<43766,43766>>, <<43867,43871>>, <<43881,43883>>, <<44005,44005>>, <<44008,44008>>,
    <<44013,44013>>, <<64286,64286>>, <<64434,64450>>, <<65024,65039>>, <<65043,65043>>, <<65056,65071>>,
    <<65106,65106>>, <<65109,65109>>, <<65279,65279>>, <<65287,65287>>, <<65294,65294>>, <<65306,65306>>,
    <<65342,65342>>, <<65344,65344>>, <<65392,65392>>, <<65438,65439>>, <<65507,65507>>, <<65529,65531>>,
    <<66045,66045>>, <<66272,66272>>, <<66422,66426>>, <<67456,67461>>, <<67463,67504>>, <<67506,67514>>,
    <<68097,68099>>, <<68101,68102>>, <<68108,68111>>, <<68152,68154>>, <<68159,68159>>, <<68325,68326>>,
    <<68900,68903>>, <<69291,69292>>, <<69446,69456>>, <<69506,69509>>, <<69633,69633>>, <<69688,69702>>,
    <<69744,69744>>, <<69747,69748>>, <<69759,69761>>, <<69811,69814>>, <<69817,69818>>, <<69821,69821>>,
    <<69826,69826>>, <<69837,69837>>, <<69888,69890>>, <<69927,69931>>, <<69933,69940>>, <<70003,70003>>,
    <<70016,70017>>, <<70070,70078>>, <<70089,70092>>, <<70095,70095>>, <<70191,70193>>, <<70196,70196>>,
    <<70198,70199>>, <<70206,70206>>, <<70367,70367>>, <<70371,70378>>, <<70400,70401>>, <<70459,70460>>,
    <<70464,70464>>, <<70502,70508>>, <<70512,70516>>, <<70712,70719>>, <<70722,70724>>, <<70726,70726>>,
    <<70750,70750>>, <<70835,70840>>, <<70842,70842>>, <<70847,70848>>, <<70850,70851>>, <<71090,71093>>,
    <<71100,71101>>, <<71103,71104>>, <<71132,71133>>, <<71219,71226>>, <<71229,71229>>, <<71231,71232>>,
    <<71339,71339>>, <<71341,71341>>, <<71344,71349>>, <<71351,71351>>, <<71453,71455>>, <<71458,71461>>,
    <<71463,71467>>, <<71727,71735>>, <<71737,71738>>, <<71995,71996>>, <<71998,71998>>, <<72003,72003>>,
    <<72148,72151>>, <<72154,72155>>, <<72160,72160>>, <<72193,72202>>, <<72243,72248>>, <<72251,72254>>,
    <<72263,72263>>, <<72273,72278>>, <<72281,72283>>, <<72330,72342>>, <<72344,72345>>, <<72752,72758>>,
    <<72760,72765>>, <<72767,72767>>, <<72850,72871>>, <<72874,72880>>, <<72882,72883>>, <<72885,72886>>,
    <<73009,73014>>, <<73018,73018>>, <<73020,73021>>, <<73023,73029>>, <<73031,73031>>, <<73104,73105>>,
    <<73109,73109>>, <<73111,73111>>, <<73459,73460>>, <<78896,78904>>, <<92912,92916>>, <<92976,92982>>,
    <<92992,92995>>, <<94031,94031>>, <<94095,94111>>, <<94176,94177>>, <<94179,94180>>, <<110576,110579>>,
    <<110581,110587>>, <<110589,110590>>, <<113821,113822>>, <<113824,113827>>, <<118528,118573>>, <<118576,118598>>,
    <<119143,119145>>, <<119155,119170>>, <<119173,119179>>, <<119210,119213>>, <<119362,119364>>, <<121344,121398>>,
    <<121403,121452>>, <<121461,121461>>, <<121476,121476>>, <<121499,121503>>, <<121505,121519>>, <<122880,122886>>,
    <<122888,122904>>, <<122907,122913>>, <<122915,122916>>, <<122918,122922>>, <<123184,123197>>, <<123566,123566>>,
    <<123628,123631>>, <<125136,125142>>, <<125252,125259>>, <<127995,127999>>, <<917505,917505>>, <<917536,917631>>,
    <<917760,917999>>
  >>

in_ranges(c, R) == \E r \in 1..Len(R) : R[r][1] <= c /\ c <= R[r][2]

is_cased(c) == in_ranges(c, CasedRanges)
is_case_ignorable(c) == in_ranges(c, CaseIgnorableRanges)

\* the lower case of one code point: one code point, or two for U+0130
char_lower(c) ==
    IF c < 128
    THEN <<IF c >= 65 /\ c <= 90 THEN c + 32 ELSE c>>
    ELSE IF c = 304
    THEN <<105, 775>>
    ELSE LET hit == {r \in 1..Len(LowerRuns) :
                        /\ LowerRuns[r][1] <= c
                        /\ c <= LowerRuns[r][2]
                        /\ (c - LowerRuns[r][1]) % LowerRuns[r][3] = 0}
         IN  IF hit = {} THEN <<c>>
             ELSE <<c + LowerRuns[CHOOSE r \in hit : TRUE][4]>>

\* capital sigma at position k is a final sigma: the nearest code point
\* before it that is not Case_Ignorable is cased, and the nearest after it
\* that is not Case_Ignorable (if any) is not
final_sigma(s, k) ==
    LET before == {j \in 1..(k - 1) : ~is_case_ignorable(s[j])}
        after  == {j \in (k + 1)..Len(s) : ~is_case_ignorable(s[j])}
    IN  /\ before # {}
        /\ is_cased(s[CHOOSE j \in before : \A h \in before : h <= j])
        /\ \/ after = {}
           \/ ~is_cased(s[CHOOSE j \in after : \A h \in after : j <= h])

\* the lower case of s from position k on
RECURSIVE lower_from(_, _)
lower_from(s, k) ==
    IF k > Len(s) THEN <<>>
    ELSE (IF s[k] = 931
          THEN <<IF final_sigma(s, k) THEN 962 ELSE 963>>
          ELSE char_lower(s[k])) \o lower_from(s, k + 1)

\* str.lower()
str_lower(s) == lower_from(s, 1)

(***************************************************************************)
(* Python str operations                                                   *)
(***************************************************************************)
\* s[k:k+len(sub)] == sub
occurs_at(sub, s, k) ==
    /\ k >= 1
    /\ k + Len(sub) - 1 <= Len(s)
    /\ \A j \in 1..Len(sub) : s[k + j - 1] = sub[j]

\* sub in s
str_in(sub, s) == \E k \in 1..(Len(s) + 1) : occurs_at(sub, s, k)

\* s.find(sub) + 1: position of the leftmost occurrence, 0 when there is none
str_find(sub, s) ==
    IF str_in(sub, s)
    THEN CHOOSE k \in 1..(Len(s) + 1) :
            /\ occurs_at(sub, s, k)
            /\ \A j \in 1..(k - 1) : ~occurs_at(sub, s, j)
    ELSE 0

\* s.split(sep) for a non-empty sep: cut at every occurrence, left to right,
\* keeping empty pieces
RECURSIVE str_split(_, _)
str_split(s, sep) ==
    LET k == str_find(sep, s)
    IN  IF k = 0
        THEN <<s>>
        ELSE <<SubSeq(s, 1, k - 1)>> \o str_split(SubSeq(s, k + Len(sep), Len(s)), sep)

\* the code points str.isspace() holds of: what str.split() and str.strip() cut at
WhitespaceRanges == <<<<9,13>>, <<28,32>>, <<133,133>>, <<160,160>>, <<5760,5760>>, <<8192,8202>>, <<8232,8233>>, <<8239,8239>>, <<8287,8287>>, <<12288,12288>>>>
is_space(c) == in_ranges(c, WhitespaceRanges)

\* s.strip()
RECURSIVE str_strip(_)
str_strip(s) ==
    IF s = <<>> THEN s
    ELSE IF is_space(s[1]) THEN str_strip(Tail(s))
    ELSE IF is_space(s[Len(s)]) THEN str_strip(SubSeq(s, 1, Len(s) - 1))
    ELSE s

SP == str(<<" ">>)
NL == str(<<"\n">>)
STR_Date  == str(<<"D","a","t","e">>)
STR_Total == str(<<"T","o","t","a","l">>)
STR_RM    == str(<<"R","M">>)
Empty == <<>>      \* the str ''

(***************************************************************************)
(* vision_detect_text_img: the field parser                                *)
(***************************************************************************)
containsCaseInsensitive(substring, string) ==
    IF str_in(str_lower(substring), str_lower(string)) THEN TRUE ELSE FALSE

\* 98-99: the date after one line of the loop; IndexError is reported by has_date_error
date_of_line(line, old) ==
    IF containsCaseInsensitive(STR_Date, line)
    THEN str_split(line, SP)[2]
    ELSE old

\* line 99 raises IndexError: line.split(" ") has no element 1
has_date_error(line) ==
    /\ containsCaseInsensitive(STR_Date, line)
    /\ Len(str_split(line, SP)) < 2

\* 100-104: the total after one line of the loop
total_of_line_strip(line, old) ==
    IF containsCaseInsensitive(STR_Total, line)
    THEN IF containsCaseInsensitive(STR_RM, line)
         THEN LET p == str_split(line, STR_RM) IN str_strip(p[Len(p)])
         ELSE LET p == str_split(line, SP) IN p[Len(p)]
    ELSE old
total_of_line(line, old) ==
    IF containsCaseInsensitive(STR_Total, line)
    THEN IF containsCaseInsensitive(STR_RM, line)
         THEN LET p == str_split(line, STR_RM) IN p[Len(p)]
         ELSE LET p == str_split(line, SP) IN p[Len(p)]
    ELSE old

\* 97-104: the for loop over the lines, from line k on; acc = [exc, date, total_price]
RECURSIVE for_lines(_, _, _)
for_lines(lines, k, acc) ==
    IF k > Len(lines) \/ acc.exc # "none"
    THEN acc
    ELSE IF has_date_error(lines[k])
         THEN [acc EXCEPT !.exc = "IndexError"]
         ELSE for_lines(lines, k + 1,
                        [exc |-> "none",
                         date |-> date_of_line(lines[k], acc.date),
                         total_price |-> total_of_line(lines[k], acc.total_price)])

\* what the caller sees when the function raises
Raised(e, r) ==
    [exc |-> e, rsp |-> r, extracted_text |-> Empty, shop_name |-> Empty,
     shop_address |-> Empty, date |-> Empty, total_price |-> Empty]

\* A Vision response {'textAnnotations': [...], ...} is a record
\*   [t |-> "dict", keys |-> the dict's keys, textAnnotations |-> the descriptions];
\* the function body from line 87 on (line 79 only unwraps 'responses')
vision_detect_text_img(r) ==
    IF "textAnnotations" \notin r.keys
    THEN Raised("UnboundLocalError", r)            \* 106: shop_name was never bound
    ELSE IF r.textAnnotations = <<>>
    THEN Raised("IndexError", r)                   \* 91: [...][0] of an empty list
    ELSE
      LET extracted_text == r.textAnnotations[1]
          lines == str_split(extracted_text, NL)
      IN  IF Len(lines) < 4
          THEN Raised("IndexError", r)             \* 95: lines[1..3]
          ELSE
            LET acc == for_lines(lines, 1,
                          [exc |-> "none", date |-> Empty, total_price |-> Empty])
            IN  IF acc.exc # "none"
                THEN Raised(acc.exc, r)
                ELSE [exc |-> "none", rsp |-> r,
                      extracted_text |-> extracted_text,
                      shop_name |-> lines[1],
                      shop_address |-> lines[2] \o SP \o lines[3] \o SP \o lines[4],
                      date |-> acc.date,
                      total_price |-> acc.total_price]

(***************************************************************************)
(* Python values and truthiness                                            *)
(***************************************************************************)
PyNone == [t |-> "None"]
PyInt(n) == [t |-> "int", v |-> n]
PyList(s) == [t |-> "list", v |-> s]
EmptyDict == [t |-> "dict", keys |-> {}]

\* "not x"
py_not(x) ==
    CASE x.t = "None" -> TRUE
      [] x.t = "int"  -> x.v = 0
      [] x.t = "list" -> x.v = <<>>
      [] x.t = "dict" -> x.keys = {}

(***************************************************************************)
(* Module constants and the four service wrappers                          *)
(***************************************************************************)
BUCKET == str(<<"B","U","C","K","E","T","_","N","A","M","E">>)
PARENT == str(<<"r","e","c","e","i","p","t","s">>)

\* 50-58: the listing when it is non-empty, else None
drive_get_img(files) ==
    LET r == PyList(files)
    IN  IF ~py_not(r) THEN r ELSE PyNone

\* 146-147: names of the objects whose name starts with the prefix
list_blobs_none(bkt, prefix) == {}
list_blobs(bkt, prefix) ==
    {o \in bkt : Len(o) >= Len(prefix) /\ SubSeq(o, 1, Len(prefix)) = prefix}

\* 153 (and the same string at 149): '%s/%s' % (folder, fname)
gcsname_of(folder, fname) == folder \o str(<<"/">>) \o fname

\* 149: (folder + '/' + fname) in files
is_duplicate_never(folder, fname, files) == FALSE
is_duplicate(folder, fname, files) == gcsname_of(folder, fname) \in files

\* 61-68: the wrapper returns what objects().insert(...).execute() returned
gcs_blob_upload(api) == api

\* the bucket after objects().insert: the object exists iff the call was confirmed
GCS_insert(bkt, fname, api) == IF py_not(api) THEN bkt ELSE bkt \cup {fname}

\* 155-156: where main() goes after the upload
after_upload_ignore(r) == "vision"
after_upload(r) == IF py_not(r) THEN "returned" ELSE "vision"

\* 109-118: the number of cells written, or None
sheet_append_row(api) ==
    IF ~py_not(api) THEN PyInt(api.updates.updatedCells) ELSE PyNone

\* Sheet1 after values().append: the row exists iff the call was confirmed
SHEETS_append(sh, row, api) == IF py_not(api) THEN sh ELSE Append(sh, row)

\* 169-170: '=HYPERLINK("storage.cloud.google.com/%s/%s", "%s")' % (bucket, gcsname, fname)
hyperlink(bkt, gcsname, fname) ==
    str(<<"=","H","Y","P","E","R","L","I","N","K","(","\"","s","t","o","r","a","g","e",".","c","l","o","u","d",".","g","o","o","g","l","e",".","c","o","m","/">>)
    \o bkt \o str(<<"/">>) \o gcsname \o str(<<"\"",","," ","\"">>) \o fname \o str(<<"\"",")">>)

\* 168-171: the row of one receipt, a list of six cells
row_of(bkt, gcsname, fname, f, ftime) ==
    <<f.date, hyperlink(bkt, gcsname, fname), f.shop_name, f.shop_address,
      f.total_price, ftime>>

(***************************************************************************)
(* Inputs                                                                  *)
(***************************************************************************)
Names == {str(<<"a">>), str(<<"b">>)}
OtherObject == str(<<"x","/","a">>)        \* an object outside the folder

RECURSIVE SeqsUpTo(_, _)
SeqsUpTo(S, n) ==
    IF n = 0 THEN {<<>>}
    ELSE LET shorter == SeqsUpTo(S, n - 1)
         IN  shorter \cup {Append(q, e) : q \in {p \in shorter : Len(p) = n - 1}, e \in S}

\* one entry of the Drive listing (fields id, name, mimeType, modifiedTime
\* of line 54): the k-th file, named n; ids are unique, the times arbitrary
DriveFile(k, n) ==
    [id |-> str(<<"f">>) \o <<48 + k>>,
     name |-> n,
     mimeType |-> str(<<"i","m","a","g","e","/","p","n","g">>),
     modifiedTime |-> str(<<"t">>) \o <<48 + k>>]

Listings ==
    {[k \in 1..Len(q) |-> DriveFile(k, q[k])] : q \in SeqsUpTo(Names, MaxFiles)}
Paths == {gcsname_of(PARENT, n) : n \in Names}
InitBuckets == {{}, {OtherObject}, {gcsname_of(PARENT, str(<<"a">>))},
                {OtherObject, gcsname_of(PARENT, str(<<"a">>))}}

RECURSIVE join(_, _)
join(lines, sep) ==
    IF lines = <<>> THEN <<>>
    ELSE IF Len(lines) = 1 THEN lines[1]
    ELSE lines[1] \o sep \o join(Tail(lines), sep)

AnnotationRsp(text) ==
    [t |-> "dict", keys |-> {"textAnnotations"}, textAnnotations |-> <<text>>]

L_Shop == str(<<"S","h","o","p">>)
L_Ln1  == str(<<"L","1">>)
L_Ln2  == str(<<"L","2">>)
L_Ln3  == str(<<"L","3">>)
L_TotalRM == str(<<"T","o","t","a","l"," ","R","M"," ","1","2",".","5">>)
L_Date    == str(<<"D","a","t","e"," ","5","/","1">>)

GoodBlob  == join(<<L_Shop, L_Ln1, L_Ln2, L_Ln3, L_Date, L_TotalRM>>, NL)
ShortBlob == join(<<L_Shop, L_Date, L_TotalRM>>, NL)

\* what VISION.images().annotate(...).execute().get('responses', [{}])[0] can be
MainResponses == {EmptyDict, AnnotationRsp(GoodBlob), AnnotationRsp(ShortBlob)}

\* what GCS.objects().insert(...).execute() can return
UploadResponses(bkt, name) ==
    {EmptyDict, [t |-> "dict", keys |-> {"bucket", "name"}, bucket |-> bkt, name |-> name]}

\* what SHEETS...append(...).execute() can return
AppendResponses(row) ==
    {EmptyDict,
     [t |-> "dict", keys |-> {"updates"}, updates |-> [updatedCells |-> Len(row)]]}

NoFields == Raised("none", EmptyDict)

(***************************************************************************)
(* main() and the __main__ block                                           *)
(***************************************************************************)
MainInit ==
    /\ listing \in Listings
    /\ bucket \in InitBuckets
    /\ sheet = <<>>
    /\ pc = "idle"
    /\ i = 1
    /\ fields = NoFields
    /\ result = "never"
    /\ cli = ""
    /\ browser = FALSE
    /\ run = 0
    /\ prevResult = "never"
    /\ emptyCond = "none"
    /\ startBucket = bucket
    /\ startRows = 0
    /\ uploadCalls = 0
    /\ appendCalls = 0
    /\ skippedIdx = {}
    /\ triedIdx = {}
    /\ uploadedIdx = {}
    /\ visionIdx = {}
    /\ rowedIdx = {}
    /\ uploadCount = [p \in Paths |-> 0]

\* 193-194, 125-130: a new process; main() lists the Drive folder
Start ==
    /\ pc = "idle"
    /\ run < MaxRuns
    /\ LET r == drive_get_img(listing)
       IN  /\ pc' = IF py_not(r) THEN "returned" ELSE "loop"
           /\ result' = IF py_not(r) THEN "None" ELSE "running"
           /\ emptyCond' = IF py_not(r) THEN "listing" ELSE "none"
    /\ i' = 1
    /\ run' = run + 1
    /\ prevResult' = result
    /\ cli' = ""
    /\ browser' = FALSE
    /\ startBucket' = bucket
    /\ startRows' = Len(sheet)
    /\ uploadCalls' = 0
    /\ appendCalls' = 0
    /\ skippedIdx' = {}
    /\ triedIdx' = {}
    /\ uploadedIdx' = {}
    /\ visionIdx' = {}
    /\ rowedIdx' = {}
    /\ UNCHANGED <<listing, bucket, sheet, fields, uploadCount>>

\* 133, 177: the listing is exhausted
Finish ==
    /\ pc = "loop"
    /\ i > Len(listing)
    /\ pc' = "returned"
    /\ result' = "True"
    /\ UNCHANGED <<listing, bucket, sheet, i, fields, cli, browser, run, prevResult,
                   emptyCond, startBucket, startRows, uploadCalls, appendCalls,
                   skippedIdx, triedIdx, uploadedIdx, visionIdx, rowedIdx, uploadCount>>

\* 133-150: the file is already in the bucket: continue
Skip ==
    /\ pc = "loop"
    /\ i <= Len(listing)
    /\ is_duplicate(PARENT, listing[i].name, list_blobs(bucket, PARENT))
    /\ i' = i + 1
    /\ skippedIdx' = skippedIdx \cup {i}
    /\ UNCHANGED <<listing, bucket, sheet, pc, fields, result, cli, browser, run,
                   prevResult, emptyCond, startBucket, startRows, uploadCalls,
                   appendCalls, triedIdx, uploadedIdx, visionIdx, rowedIdx, uploadCount>>

\* 133-158: the file is not in the bucket: upload it
Upload ==
    /\ pc = "loop"
    /\ i <= Len(listing)
    /\ ~is_duplicate(PARENT, listing[i].name, list_blobs(bucket, PARENT))
    /\ LET gcsname == gcsname_of(PARENT, listing[i].name)
       IN  \E api \in UploadResponses(BUCKET, gcsname) :
             LET r == gcs_blob_upload(api)
             IN  /\ bucket' = GCS_insert(bucket, gcsname, api)
                 /\ uploadCalls' = uploadCalls + 1
                 /\ triedIdx' = triedIdx \cup {i}
                 /\ pc' = after_upload(r)
                 /\ result' = IF after_upload(r) = "returned" THEN "None" ELSE result
                 /\ emptyCond' = IF py_not(r) THEN "upload" ELSE emptyCond
                 /\ uploadedIdx' = IF py_not(r) THEN uploadedIdx ELSE uploadedIdx \cup {i}
                 /\ uploadCount' = IF py_not(r) THEN uploadCount
                                   ELSE [uploadCount EXCEPT ![gcsname] = @ + 1]
    /\ UNCHANGED <<listing, sheet, i, fields, cli, browser, run, prevResult,
                   startBucket, startRows, appendCalls, skippedIdx, visionIdx, rowedIdx>>

\* 160-165: text extraction and field parsing
Vision ==
    /\ pc = "vision"
    /\ \E r \in MainResponses :
         LET f == vision_detect_text_img(r)
         IN  /\ visionIdx' = visionIdx \cup {i}
             /\ emptyCond' = IF py_not(r) THEN "extraction" ELSE emptyCond
             /\ IF f.exc # "none"
                THEN pc' = "returned" /\ result' = "raised" /\ fields' = fields
                ELSE IF py_not(f.rsp)
                THEN pc' = "returned" /\ result' = "None" /\ fields' = fields
                ELSE pc' = "append" /\ result' = result /\ fields' = f
    /\ UNCHANGED <<listing, bucket, sheet, i, cli, browser, run, prevResult,
                   startBucket, startRows, uploadCalls, appendCalls, skippedIdx,
                   triedIdx, uploadedIdx, rowedIdx, uploadCount>>

\* 167-176: append the row
AppendRow ==
    /\ pc = "append"
    /\ LET gcsname == gcsname_of(PARENT, listing[i].name)
           row == row_of(BUCKET, gcsname, listing[i].name, fields, listing[i].modifiedTime)
       IN  \E api \in AppendResponses(row) :
             LET r == sheet_append_row(api)
             IN  /\ sheet' = SHEETS_append(sheet, row, api)
                 /\ appendCalls' = appendCalls + 1
                 /\ IF py_not(r)
                    THEN /\ pc' = "returned"
                         /\ result' = "None"
                         /\ emptyCond' = "append"
                         /\ i' = i
                         /\ rowedIdx' = rowedIdx
                    ELSE /\ pc' = "loop"
                         /\ result' = result
                         /\ emptyCond' = emptyCond
                         /\ i' = i + 1
                         /\ rowedIdx' = rowedIdx \cup {i}
    /\ fields' = NoFields
    /\ UNCHANGED <<listing, bucket, cli, browser, run, prevResult, startBucket,
                   startRows, uploadCalls, skippedIdx, triedIdx, uploadedIdx, visionIdx,
                   uploadCount>>

\* 194-200: the __main__ block after main(); an exception ends the process
\* with a traceback before anything is printed
Exit ==
    /\ pc = "returned"
    /\ pc' = "idle"
    /\ cli' = IF result = "raised" THEN "TRACEBACK"
              ELSE IF result = "True" THEN "DONE" ELSE "ERROR"
    /\ browser' = (result = "True")
    /\ UNCHANGED <<listing, bucket, sheet, i, fields, result, run, prevResult,
                   emptyCond, startBucket, startRows, uploadCalls, appendCalls,
                   skippedIdx, triedIdx, uploadedIdx, visionIdx, rowedIdx, uploadCount>>

ParseIdle ==
    /\ rsp = EmptyDict
    /\ out = NoFields
    /\ ppc = "done"

Init == MainInit /\ ParseIdle

Next ==
    \/ Start /\ UNCHANGED parseVars
    \/ Finish /\ UNCHANGED parseVars
    \/ Skip /\ UNCHANGED parseVars
    \/ Upload /\ UNCHANGED parseVars
    \/ Vision /\ UNCHANGED parseVars
    \/ AppendRow /\ UNCHANGED parseVars
    \/ Exit /\ UNCHANGED parseVars

Spec == Init /\ [][Next]_vars

(***************************************************************************)
(* The text extractor on its own: every input of ParseInputs is parsed     *)
(***************************************************************************)
L_TotalLow  == str(<<"T","o","t","a","l"," ","r","m"," ","5",".","0">>)
L_TotalBare == str(<<"T","o","t","a","l"," ","4","5",".","0">>)
L_SubtotalRM == str(<<"S","u","b","t","o","t","a","l"," ","R","M"," ","9">>)
L_TotalTwoRM == str(<<"T","O","T","A","L"," ","R","M","3"," ","R","M","4">>)
L_DateUpper == str(<<"D","A","T","E",":"," ","6","/","2">>)
L_DateWide  == str(<<"D","a","t","e"," "," ","7","/","3">>)
L_Update    == str(<<"U","p","d","a","t","e">>)
L_Item      == str(<<"I","t","e","m"," ","3">>)
L_TotalAccent == str(<<"T","O","T","A","L"," ">>) \o <<201, 931, 56>>   \* 'TOTAL ' + E acute + capital sigma + '8'

Catalogue == {L_TotalRM, L_TotalLow, L_TotalBare, L_SubtotalRM, L_TotalTwoRM,
              L_Date, L_DateUpper, L_DateWide, L_Update, L_Item, L_TotalAccent}

Headers == {<<L_Shop, L_Ln1, L_Ln2, L_Ln3>>, <<L_Shop, L_Ln1>>}

ErrorDict == [t |-> "dict", keys |-> {"error"}]
NoAnnotations == [t |-> "dict", keys |-> {"textAnnotations"}, textAnnotations |-> <<>>]

ParseInputs ==
    {EmptyDict, ErrorDict, NoAnnotations}
    \cup {AnnotationRsp(join(h \o b, NL)) : h \in Headers, b \in SeqsUpTo(Catalogue, MaxBody)}

MainIdle ==
    /\ MainInit
    /\ listing = <<>>
    /\ bucket = {}

InitParse ==
    /\ MainIdle
    /\ rsp \in ParseInputs
    /\ out = NoFields
    /\ ppc = "ready"

\* 71-106: one call of vision_detect_text_img
Detect ==
    /\ ppc = "ready"
    /\ out' = vision_detect_text_img(rsp)
    /\ ppc' = "done"
    /\ UNCHANGED <<rsp, mainVars>>

NextParse == Detect

SpecParse == InitParse /\ [][NextParse]_vars

(***************************************************************************)
(* Notions the claims are stated in                                        *)
(***************************************************************************)
PathAt(k) == gcsname_of(PARENT, listing[k].name)
RowsFor(p) ==
    {k \in 1..Len(sheet) :
        \E n \in Names : p = gcsname_of(PARENT, n) /\ sheet[k][2] = hyperlink(BUCKET, p, n)}
Ended == pc \in {"returned", "idle"}

\* the parser's input has a text blob / its lines
HasBlob == "textAnnotations" \in rsp.keys /\ rsp.textAnnotations # <<>>
BlobLines == str_split(rsp.textAnnotations[1], NL)
LongBlob == HasBlob /\ Len(BlobLines) >= 4
MatchIdx(word) == {k \in 1..Len(BlobLines) : str_in(str_lower(word), str_lower(BlobLines[k]))}
DateIdx == MatchIdx(STR_Date)
TotalIdx == MatchIdx(STR_Total)
MinOf(S) == CHOOSE k \in S : \A j \in S : k <= j
MaxOf(S) == CHOOSE k \in S : \A j \in S : k >= j

\* s.split(): the tokens between runs of whitespace
RECURSIVE ws_tokens(_)
ws_tokens(s) ==
    IF s = <<>> THEN <<>>
    ELSE IF is_space(s[1]) THEN ws_tokens(Tail(s))
    ELSE LET stops == {k \in 1..Len(s) : is_space(s[k])}
             n == IF stops = {} THEN Len(s) + 1 ELSE MinOf(stops)
         IN  <<SubSeq(s, 1, n - 1)>> \o ws_tokens(SubSeq(s, n, Len(s)))

\* what follows the last occurrence of sub in s (all of s when there is none)
after_last(sub, s) ==
    LET at == {k \in 1..Len(s) : occurs_at(sub, s, k)}
    IN  IF at = {} THEN s ELSE SubSeq(s, MaxOf(at) + Len(sub), Len(s))

\* the total one line yields by the rule of lines 100-104
derived_total(line) ==
    IF str_in(str(<<"r","m">>), str_lower(line))
    THEN after_last(STR_RM, line)
    ELSE after_last(SP, line)

(***************************************************************************)
(* Claims about main()                       (specification Spec)          *)
(***************************************************************************)

\* C1 as stated: a run that follows another run over the same listing makes
\* no gcs_blob_upload call and no sheet_append_row call, whatever the
\* outcome of the run before it.
C1_SecondRunIdleAlways ==
    run >= 2 => (uploadCalls = 0 /\ appendCalls = 0)

\* C1 amended: a run that follows a run which returned True (or any run over
\* an empty listing) makes no gcs_blob_upload call and no sheet_append_row call.
C1_SecondRunIdle ==
    (run >= 2 /\ (prevResult = "True" \/ listing = <<>>))
        => (uploadCalls = 0 /\ appendCalls = 0)

C1_Witness ==
    /\ run = 2
    /\ prevResult = "True"
    /\ pc = "returned"
    /\ result = "True"
    /\ Len(listing) >= 2
    /\ skippedIdx = 1..Len(listing)
    /\ \E p \in Paths : uploadCount[p] = 1 /\ RowsFor(p) # {}

\* C2: a file whose path is in the bucket listing is skipped with no upload,
\* no extraction and no row, and the loop goes on to the next file; no path
\* is uploaded (with confirmation) twice or given two rows, in one run or
\* across runs.
C2_DuplicateFilter ==
    /\ skippedIdx \cap (triedIdx \cup uploadedIdx \cup visionIdx \cup rowedIdx) = {}
    /\ \A k \in skippedIdx : k < i /\ PathAt(k) \in bucket
    /\ \A p \in Paths : uploadCount[p] <= 1
    /\ \A p \in Paths : Cardinality(RowsFor(p)) <= 1
    /\ uploadCalls = Cardinality(triedIdx)
    /\ appendCalls <= Cardinality(visionIdx)

C2_Witness ==
    /\ run >= 2
    /\ \E k \in skippedIdx : \E j \in rowedIdx :
          /\ j < k
          /\ listing[j].name = listing[k].name
    /\ \E k \in skippedIdx : PathAt(k) \in startBucket /\ uploadCount[PathAt(k)] = 1

\* C3: when gcs_blob_upload gives no confirmation, main() returns at once
\* with a falsy result; every file this run processed before it is archived
\* and has its row; the failed file and the files after it have no new
\* object and no row.
C3_UploadFailure ==
    emptyCond = "upload" =>
        /\ Ended
        /\ result = "None"
        /\ triedIdx = uploadedIdx \cup {i}
        /\ uploadedIdx = rowedIdx
        /\ visionIdx = rowedIdx
        /\ \A k \in uploadedIdx : k < i /\ PathAt(k) \in bucket /\ RowsFor(PathAt(k)) # {}
        /\ bucket = startBucket \cup {PathAt(k) : k \in uploadedIdx}
        /\ Len(sheet) = startRows + Cardinality(rowedIdx)
        /\ PathAt(i) \notin bucket
        /\ RowsFor(PathAt(i)) = {}

C3_Witness ==
    /\ emptyCond = "upload"
    /\ pc = "returned"
    /\ uploadedIdx # {}
    /\ i < Len(listing)

\* C4: each of the four empty-result conditions (listing, upload,
\* extraction, append) ends main() early with a falsy result and no
\* exception; the command line then prints the error message and does not
\* open the spreadsheet.
C4_EmptyResultsUniform ==
    emptyCond # "none" =>
        /\ Ended
        /\ result = "None"
        /\ (pc = "idle" => (cli = "ERROR" /\ ~browser))

\* C10: when a run has returned True, every path this program ever uploaded
\* has a row in the sheet.
C10_ArchivedImpliesReported ==
    (pc = "returned" /\ result = "True")
        => \A p \in Paths : uploadCount[p] > 0 => RowsFor(p) # {}

(***************************************************************************)
(* Claims about vision_detect_text_img       (specification SpecParse)     *)
(***************************************************************************)

\* C5: on a response without a text annotation the function returns
\* normally, with the text and every parsed field the empty string.
C5_NoAnnotationEmptyFields ==
    (ppc = "done" /\ "textAnnotations" \notin rsp.keys) =>
        /\ out.exc = "none"
        /\ out.extracted_text = Empty
        /\ out.shop_name = Empty
        /\ out.shop_address = Empty
        /\ out.date = Empty
        /\ out.total_price = Empty

\* C6: for a blob of at least 4 lines with a line containing
\* 'date' (any case), the date is the second whitespace-separated token of
\* the first such line (stated for the calls that return, and for first
\* lines that have a second token).
C6_DateFirstLineToken ==
    (ppc = "done" /\ LongBlob /\ DateIdx # {} /\ out.exc = "none"
        /\ Len(ws_tokens(BlobLines[MinOf(DateIdx)])) >= 2) =>
        out.date = ws_tokens(BlobLines[MinOf(DateIdx)])[2]

\* C7 as stated: when the line the total is taken from contains 'total'
\* (any case) and 'RM', the total is what follows the last 'RM' of that
\* line with leading and trailing whitespace removed.
C7_TotalAfterRMTrimmed ==
    (ppc = "done" /\ LongBlob /\ out.exc = "none" /\ TotalIdx # {}
        /\ str_in(STR_RM, BlobLines[MaxOf(TotalIdx)])) =>
        out.total_price = str_strip(after_last(STR_RM, BlobLines[MaxOf(TotalIdx)]))

\* C7 amended: ... the total is what follows the last 'RM' of that line,
\* whitespace included ('Total RM 12.5' gives ' 12.5').
C7_TotalAfterRM ==
    (ppc = "done" /\ LongBlob /\ out.exc = "none" /\ TotalIdx # {}
        /\ str_in(STR_RM, BlobLines[MaxOf(TotalIdx)])) =>
        out.total_price = after_last(STR_RM, BlobLines[MaxOf(TotalIdx)])

C7_Witness ==
    /\ ppc = "done"
    /\ LongBlob
    /\ out.exc = "none"
    /\ TotalIdx # {}
    /\ BlobLines[MaxOf(TotalIdx)] = L_TotalRM
    /\ out.total_price = str(<<" ","1","2",".","5">>)

\* C8: when the line the total is taken from contains 'total' (any case)
\* and not the substring 'RM', the total is the last whitespace-separated
\* token of that line, also when the line contains 'rm' in another case.
C8_TotalLastToken ==
    (ppc = "done" /\ LongBlob /\ out.exc = "none" /\ TotalIdx # {}
        /\ ~str_in(STR_RM, BlobLines[MaxOf(TotalIdx)])) =>
        LET toks == ws_tokens(BlobLines[MaxOf(TotalIdx)])
        IN  out.total_price = toks[Len(toks)]

\* C9: with several lines containing 'total' (any case), the
\* total is derived from the first of them.
C9_TotalFirstLineWins ==
    (ppc = "done" /\ LongBlob /\ out.exc = "none" /\ Cardinality(TotalIdx) >= 2) =>
        out.total_price = derived_total(BlobLines[MinOf(TotalIdx)])

TypeOK ==
    /\ pc \in {"idle", "loop", "vision", "append", "returned"}
    /\ result \in {"never", "running", "True", "None", "raised"}
    /\ bucket \subseteq (Paths \cup {OtherObject})
    /\ run \in 0..MaxRuns
====
